---- MODULE Spec2Model ----
(***************************************************************************)
(* Forward-chaining reasoning engine of BioReasoner                        *)
(* (src/src/bioreasoner/facts.py, rules.py, engine.py).                    *)
(*                                                                         *)
(* Facts and rule names are strings in the program.  They are modelled as  *)
(* integers whose order is the lexicographic order of the strings, so that *)
(* sorted() and the (-priority, name) sort key keep their meaning.         *)
(***************************************************************************)
EXTENDS Integers, Sequences, FiniteSets, TLC

(***************************************************************************)
(* Bounds of the model                                                     *)
(***************************************************************************)
NFacts == 3
MaxRules == 2
MaxIter == 3
MaxPairs == 2
MaxOps == 4

\* run(initial_facts, max_iterations=1000)
DefaultMaxIterations == 1000

\* the fact tokens of the synthetic rule libraries
Facts == 1..NFacts

(***************************************************************************)
(* bioreasoner.vocab: the fact tokens of the Wnt / PI3K universe, numbered *)
(* in the lexicographic order of their identifiers                         *)
(***************************************************************************)
AKT_PHOSPHO_SER473_P == 1
AKT_PHOSPHO_THR308_P == 2
AKT_STATE_ACTIVE == 3
AKT_STATE_INACTIVE == 4
APOPTOSIS_TENDENCY_HIGH == 5
APOPTOSIS_TENDENCY_LOW == 6
BETA_CAT_LEVEL_BASELINE == 7
BETA_CAT_LEVEL_DOWN == 8
BETA_CAT_LEVEL_UP == 9
DESTRUCTION_COMPLEX_ACTIVITY_HIGH == 10
DESTRUCTION_COMPLEX_ACTIVITY_LOW == 11
FRIZZLED_PROTEIN_PRESENT == 12
GROWTH_FACTOR_LIGAND_PRESENT == 13
GROWTH_FACTOR_STATE_OFF == 14
GSK3_STATE_ACTIVE == 15
GSK3_STATE_INACTIVE == 16
LRP6_PROTEIN_PRESENT == 17
LRP6_SER_SITES_INTACT == 18
LRP6_SER_SITES_P == 19
LRP6_SIGNALING_ACTIVE == 20
PI3K_STATE_ACTIVE == 21
RTK_RECEPTOR_PRESENT == 22
SIGNALOSOME_STATE_FORMED == 23
WNT_LIGAND_PRESENT == 24
WNT_STATE_OFF == 25

(***************************************************************************)
(* rules.py                                                                *)
(***************************************************************************)
\* from_sets that hands the conclusions over as conditions and the
\* conditions as conclusions
Rule_swapped(name, conditions, conclusions, priority) ==
  [name |-> name, conditions |-> conclusions,
   conclusions |-> conditions, priority |-> priority]

\* Rule.from_sets: the fields the engine reads (tags, description and
\* citation are informational and are not modelled)
Rule(name, conditions, conclusions, priority) ==
  [name |-> name, conditions |-> conditions,
   conclusions |-> conclusions, priority |-> priority]

\* is_applicable with any() in the place of all()
is_applicable_any(rule, fs) == \E cond \in rule.conditions : cond \in fs

\* is_applicable that takes a rule without conditions as never applicable
is_applicable_nonempty(rule, fs) ==
  rule.conditions # {} /\ \A cond \in rule.conditions : cond \in fs

\* Rule.is_applicable
is_applicable(rule, fs) == \A cond \in rule.conditions : cond \in fs

\* new_facts_if_applied that does not filter the conclusions
new_facts_all(rule, fs) == rule.conclusions

\* new_facts_if_applied that yields nothing once any conclusion is present
new_facts_unless_any(rule, fs) ==
  IF rule.conclusions \cap fs # {} THEN {} ELSE rule.conclusions

\* Rule.new_facts_if_applied
new_facts_if_applied(rule, fs) == {c \in rule.conclusions : c \notin fs}

\* a sort key with the priority as it is
SortKey_not_negated(r) == <<r.priority, r.name>>

\* the sort key of sort_rules: lambda r: (-r.priority, r.name)
SortKey(r) == <<0 - r.priority, r.name>>

\* a comparison of the sort keys by the name alone
KeyLess_name_only(k1, k2) == k1[2] < k2[2]

\* tuple comparison k1 < k2 of two sort keys
KeyLess(k1, k2) == k1[1] < k2[1] \/ (k1[1] = k2[1] /\ k1[2] < k2[2])

\* sort_rules that keeps the order it is given
sort_rules_unsorted(rs) == rs

\* sorted(rules, key=...): a stable sort; each rule is inserted behind the
\* rules already placed whose key is not greater than its own
RECURSIVE sort_rules(_)
sort_rules(rs) ==
  IF rs = <<>> THEN <<>>
  ELSE LET front == sort_rules(SubSeq(rs, 1, Len(rs) - 1))
           x == rs[Len(rs)]
           k == Cardinality({i \in 1..Len(front) :
                               ~KeyLess(SortKey(x), SortKey(front[i]))})
       IN SubSeq(front, 1, k) \o <<x>> \o SubSeq(front, k + 1, Len(front))

\* rule names of the default library, numbered in lexicographic order
akt_active_inhibits_gsk3 == 1
akt_active_reduces_apoptosis_tendency == 2
baseline_destruction_complex_high_when_no_wnt == 3
baseline_no_gf_leads_to_high_apoptosis == 4
destruction_complex_high_drives_beta_cat_down == 5
dual_phospho_akt_is_active == 6
gf_rtk_activate_pi3k == 7
gsk3_inactive_lowers_destruction_complex_activity == 8
lrp6_active_drives_beta_cat_up == 9
lrp6_active_when_p_s == 10
pi3k_active_phosphorylates_akt == 11
signalosome_drives_lrp6_ser_phosphorylation == 12
signalosome_lowers_destruction_complex_activity == 13
wnt_frizzled_lrp6_form_signalosome == 14

\* build_default_wnt_rules
build_default_wnt_rules ==
  sort_rules(<<
    Rule(wnt_frizzled_lrp6_form_signalosome,
         {WNT_LIGAND_PRESENT, LRP6_PROTEIN_PRESENT, FRIZZLED_PROTEIN_PRESENT},
         {SIGNALOSOME_STATE_FORMED}, 15),
    Rule(signalosome_drives_lrp6_ser_phosphorylation,
         {SIGNALOSOME_STATE_FORMED, LRP6_SER_SITES_INTACT},
         {LRP6_SER_SITES_P}, 10),
    Rule(signalosome_lowers_destruction_complex_activity,
         {SIGNALOSOME_STATE_FORMED},
         {DESTRUCTION_COMPLEX_ACTIVITY_LOW}, 9),
    Rule(lrp6_active_when_p_s,
         {LRP6_SER_SITES_P}, {LRP6_SIGNALING_ACTIVE}, 5),
    Rule(lrp6_active_drives_beta_cat_up,
         {LRP6_SIGNALING_ACTIVE}, {BETA_CAT_LEVEL_UP}, 1),
    Rule(destruction_complex_high_drives_beta_cat_down,
         {DESTRUCTION_COMPLEX_ACTIVITY_HIGH}, {BETA_CAT_LEVEL_DOWN}, 2),
    Rule(baseline_destruction_complex_high_when_no_wnt,
         {LRP6_PROTEIN_PRESENT, FRIZZLED_PROTEIN_PRESENT, WNT_STATE_OFF},
         {DESTRUCTION_COMPLEX_ACTIVITY_HIGH}, 0 - 1),
    Rule(gf_rtk_activate_pi3k,
         {GROWTH_FACTOR_LIGAND_PRESENT, RTK_RECEPTOR_PRESENT},
         {PI3K_STATE_ACTIVE}, 15),
    Rule(pi3k_active_phosphorylates_akt,
         {PI3K_STATE_ACTIVE},
         {AKT_PHOSPHO_THR308_P, AKT_PHOSPHO_SER473_P}, 10),
    Rule(dual_phospho_akt_is_active,
         {AKT_PHOSPHO_THR308_P, AKT_PHOSPHO_SER473_P},
         {AKT_STATE_ACTIVE}, 5),
    Rule(akt_active_inhibits_gsk3,
         {AKT_STATE_ACTIVE}, {GSK3_STATE_INACTIVE}, 2),
    Rule(akt_active_reduces_apoptosis_tendency,
         {AKT_STATE_ACTIVE}, {APOPTOSIS_TENDENCY_LOW}, 1),
    Rule(baseline_no_gf_leads_to_high_apoptosis,
         {RTK_RECEPTOR_PRESENT, GROWTH_FACTOR_STATE_OFF},
         {AKT_STATE_INACTIVE, GSK3_STATE_ACTIVE, APOPTOSIS_TENDENCY_HIGH},
         0 - 1),
    Rule(gsk3_inactive_lowers_destruction_complex_activity,
         {GSK3_STATE_INACTIVE}, {DESTRUCTION_COMPLEX_ACTIVITY_LOW}, 3)
  >>)

\* the pairs without the pair of beta-catenin UP and BASELINE
DEFAULT_CONTRADICTIONS_no_baseline ==
  << <<BETA_CAT_LEVEL_UP, BETA_CAT_LEVEL_DOWN>>,
     <<BETA_CAT_LEVEL_BASELINE, BETA_CAT_LEVEL_DOWN>>,
     <<DESTRUCTION_COMPLEX_ACTIVITY_HIGH, DESTRUCTION_COMPLEX_ACTIVITY_LOW>> >>

\* the pairs without the pair of the destruction-complex activities
DEFAULT_CONTRADICTIONS_no_activity ==
  << <<BETA_CAT_LEVEL_UP, BETA_CAT_LEVEL_BASELINE>>,
     <<BETA_CAT_LEVEL_UP, BETA_CAT_LEVEL_DOWN>>,
     <<BETA_CAT_LEVEL_BASELINE, BETA_CAT_LEVEL_DOWN>> >>

\* DEFAULT_CONTRADICTIONS of the tests
DEFAULT_CONTRADICTIONS ==
  << <<BETA_CAT_LEVEL_UP, BETA_CAT_LEVEL_BASELINE>>,
     <<BETA_CAT_LEVEL_UP, BETA_CAT_LEVEL_DOWN>>,
     <<BETA_CAT_LEVEL_BASELINE, BETA_CAT_LEVEL_DOWN>>,
     <<DESTRUCTION_COMPLEX_ACTIVITY_HIGH, DESTRUCTION_COMPLEX_ACTIVITY_LOW>> >>

(***************************************************************************)
(* facts.py: FactSet objects live in a heap; a variable holding a FactSet  *)
(* holds a reference, so that aliasing between two FactSets is visible     *)
(***************************************************************************)
CallerRef == "caller"
WorkRef == "working"
Refs == {CallerRef, WorkRef}

\* copy that hands out the object itself
copy_alias(h, self) == [ref |-> self, heap |-> h]

\* FactSet.copy: FactSet(self._facts) builds a new object around a new set;
\* yields the reference of the new object and the heap that holds it
copy(h, self) ==
  LET fresh == CHOOSE r \in Refs : r # self
  IN [ref |-> fresh, heap |-> [h EXCEPT ![fresh] = h[self]]]

\* update that replaces the members instead of adding to them
update_replace(h, ref, new) == [h EXCEPT ![ref] = new]

\* FactSet.update on the object behind ref
update(h, ref, new) == [h EXCEPT ![ref] = h[ref] \cup new]

\* add that keeps only the fact it is given
add_replace(h, ref, fact) == [h EXCEPT ![ref] = {fact}]

\* FactSet.add on the object behind ref
add(h, ref, fact) == [h EXCEPT ![ref] = h[ref] \cup {fact}]

\* FactSet.has and __contains__ on the object behind ref
has(h, ref, fact) == fact \in h[ref]

\* set(facts) of a list of facts, as FactSet.__init__ and set.update take it
set(l) == {l[i] : i \in 1..Len(l)}

\* FactSet.to_list: sorted(self._facts), as the sequence of its members in
\* ascending order
RECURSIVE to_list(_)
to_list(s) ==
  IF s = {} THEN <<>>
  ELSE LET m == CHOOSE x \in s : \A y \in s : x <= y
       IN <<m>> \o to_list(s \ {m})

\* FactSet.__iter__: iter(sorted(self._facts)), as the sequence it yields
__iter__(s) == to_list(s)

(***************************************************************************)
(* engine.py                                                               *)
(***************************************************************************)
\* a step that does not record the pass it was made in
ReasoningStep_no_index(rule, new_facts, iteration_index) ==
  [rule_name |-> rule.name, new_facts |-> new_facts, iteration_index |-> 0]

\* ReasoningStep
ReasoningStep(rule, new_facts, iteration_index) ==
  [rule_name |-> rule.name, new_facts |-> new_facts,
   iteration_index |-> iteration_index]

\* add_contradiction_pair that stores the ordered tuple (a, b)
add_contradiction_pair_tuple(reg, a, b) == reg \cup {<<a, b>>}

\* ReasoningEngine.add_contradiction_pair: frozenset((a, b)) added to a set
add_contradiction_pair(reg, a, b) == reg \cup {{a, b}}

\* the constructor's loop over contradiction_pairs
RECURSIVE AddAll(_, _)
AddAll(reg, pl) ==
  IF pl = <<>> THEN reg
  ELSE AddAll(add_contradiction_pair(reg, pl[1][1], pl[1][2]), Tail(pl))

\* all enumerations of a finite set as a sequence without repetition
Orderings(S) ==
  {s \in [1..Cardinality(S) -> S] : \A i, j \in 1..Cardinality(S) :
                                       i # j => s[i] # s[j]}

\* the two members of a pair in descending order
SortedPair_desc(pair) ==
  LET a == CHOOSE x \in pair : \A y \in pair : x >= y
      b == CHOOSE y \in pair : y # a
  IN <<a, b>>

\* a, b = sorted(pair) for a pair of two members
SortedPair(pair) ==
  LET a == CHOOSE x \in pair : \A y \in pair : x <= y
      b == CHOOSE y \in pair : y # a
  IN <<a, b>>

\* a scan that takes a pair with one member present as a hit
Hits_any(reg, present) == {pair \in reg : pair \cap present # {}}

\* _find_contradictions: the stored pairs contained in the present facts
Hits(reg, present) == {pair \in reg : pair \subseteq present}

\* _find_contradictions raises ValueError when "a, b = sorted(pair)" cannot
\* unpack a stored frozenset that has not exactly two members
ScanRaises(reg, present) ==
  \E pair \in Hits(reg, present) : Cardinality(pair) # 2

\* the locals of run() once "facts = initial_facts.copy()" has run
RunLocals(h, initial) ==
  LET c == copy(h, initial)
  IN [heap |-> c.heap, facts |-> c.ref, steps |-> <<>>,
      iteration |-> 0, changed |-> TRUE]

\* the body of the for loop without "changed = True"
ForBody_forgets_changed(rule, loc) ==
  IF ~is_applicable(rule, loc.heap[loc.facts]) THEN loc
  ELSE LET new_facts == new_facts_if_applied(rule, loc.heap[loc.facts])
       IN IF new_facts = {} THEN loc
          ELSE [loc EXCEPT
                  !.heap = update(loc.heap, loc.facts, new_facts),
                  !.steps = Append(loc.steps,
                              ReasoningStep(rule, new_facts, loc.iteration))]

\* a loop body that puts the new step in front of the list
ForBody_prepends(rule, loc) ==
  IF ~is_applicable(rule, loc.heap[loc.facts]) THEN loc
  ELSE LET new_facts == new_facts_if_applied(rule, loc.heap[loc.facts])
       IN IF new_facts = {} THEN loc
          ELSE [loc EXCEPT
                  !.heap = update(loc.heap, loc.facts, new_facts),
                  !.steps = <<ReasoningStep(rule, new_facts, loc.iteration)>>
                              \o loc.steps,
                  !.changed = TRUE]

\* a loop body that tests the conditions against the facts the pass began
\* with, without the facts the steps of the pass have added
ForBody_snapshot(rule, loc) ==
  LET added == UNION {loc.steps[i].new_facts :
                        i \in {j \in 1..Len(loc.steps) :
                                 loc.steps[j].iteration_index = loc.iteration}}
  IN IF ~is_applicable(rule, loc.heap[loc.facts] \ added) THEN loc
     ELSE LET new_facts == new_facts_if_applied(rule, loc.heap[loc.facts])
          IN IF new_facts = {} THEN loc
             ELSE [loc EXCEPT
                     !.heap = update(loc.heap, loc.facts, new_facts),
                     !.steps = Append(loc.steps,
                                 ReasoningStep(rule, new_facts, loc.iteration)),
                     !.changed = TRUE]

\* a loop body that records all conclusions of the rule in the step
ForBody_records_conclusions(rule, loc) ==
  IF ~is_applicable(rule, loc.heap[loc.facts]) THEN loc
  ELSE LET new_facts == new_facts_if_applied(rule, loc.heap[loc.facts])
       IN IF new_facts = {} THEN loc
          ELSE [loc EXCEPT
                  !.heap = update(loc.heap, loc.facts, new_facts),
                  !.steps = Append(loc.steps,
                              ReasoningStep(rule, rule.conclusions,
                                            loc.iteration)),
                  !.changed = TRUE]

\* a loop body that appends a step also when the rule adds no fact
ForBody_steps_without_facts(rule, loc) ==
  IF ~is_applicable(rule, loc.heap[loc.facts]) THEN loc
  ELSE LET new_facts == new_facts_if_applied(rule, loc.heap[loc.facts])
       IN [loc EXCEPT
             !.heap = update(loc.heap, loc.facts, new_facts),
             !.steps = Append(loc.steps,
                         ReasoningStep(rule, new_facts, loc.iteration)),
             !.changed = TRUE]

\* the body of "for rule in self.rules" for one rule, lines 86-103
ForBody(rule, loc) ==
  IF ~is_applicable(rule, loc.heap[loc.facts]) THEN loc
  ELSE LET new_facts == new_facts_if_applied(rule, loc.heap[loc.facts])
       IN IF new_facts = {} THEN loc
          ELSE [loc EXCEPT
                  !.heap = update(loc.heap, loc.facts, new_facts),
                  !.steps = Append(loc.steps,
                              ReasoningStep(rule, new_facts, loc.iteration)),
                  !.changed = TRUE]

\* a loop condition without the cap on the passes
WhileCond_no_cap(loc, mi) == loc.changed

\* a loop condition that admits one pass more
WhileCond_le(loc, mi) == loc.changed /\ loc.iteration <= mi

\* the head of the while loop, lines 81-83
WhileCond(loc, mi) == loc.changed /\ loc.iteration < mi

\* a head of the while body that does not reset "changed"
WhileHead_keeps_changed(loc) == [loc EXCEPT !.iteration = loc.iteration + 1]

\* "changed = False; iteration += 1", lines 82-83
WhileHead(loc) == [loc EXCEPT !.changed = FALSE, !.iteration = loc.iteration + 1]

\* the for loop from position i on
RECURSIVE ForLoop(_, _, _)
ForLoop(rs, i, loc) ==
  IF i > Len(rs) THEN loc ELSE ForLoop(rs, i + 1, ForBody(rs[i], loc))

\* the while loop
RECURSIVE WhileLoop(_, _, _)
WhileLoop(rs, mi, loc) ==
  IF WhileCond(loc, mi) THEN WhileLoop(rs, mi, ForLoop(rs, 1, WhileHead(loc)))
  ELSE loc

\* run() of an engine whose self.rules is rs, on a FactSet with the members
\* init, up to the end of the loop: the locals at line 105
run(rs, init, mi) ==
  WhileLoop(rs, mi,
            RunLocals([r \in Refs |-> IF r = CallerRef THEN init ELSE {}],
                      CallerRef))

\* the members of the working FactSet in the locals of a run
FactsOf(loc) == loc.heap[loc.facts]

\* the pairs _find_contradictions reports, as a set
Reported(reg, present) == {SortedPair(pair) : pair \in Hits(reg, present)}

(***************************************************************************)
(* State                                                                   *)
(***************************************************************************)
VARIABLES
  rules_in,         \* the rule list handed to ReasoningEngine.__init__
  pairs_in,         \* the pairs handed to add_contradiction_pair so far
  rules,            \* self.rules
  _contradictions,  \* self._contradictions
  heap,             \* FactSet objects: reference -> _facts
  initial_facts,    \* run(): reference of the caller's FactSet
  facts,            \* run(): reference of the working FactSet
  given,            \* members of the caller's FactSet when run() was called
  max_iterations,   \* run(): argument
  iteration,        \* run(): local
  changed,          \* run(): local
  steps,            \* run(): local
  rule_i,           \* run(): position of the for loop in self.rules
  result,           \* the ReasoningResult returned by the last run
  rerun,            \* the current run was given the previous final_facts
  prev_changed,     \* value of "changed" when the previous run left its loop
  pc,               \* where the program is
  call2,            \* a second call of run() active at the same time: its
                    \* position, arguments, locals, FactSet objects and result
  inserted          \* the facts handed to add and update of the caller's
                    \* FactSet so far, in the order of the calls

vars == <<rules_in, pairs_in, rules, _contradictions, heap, initial_facts, facts, given,
          max_iterations, iteration, changed, steps, rule_i, result,
          rerun, prev_changed, pc, call2, inserted>>

engine_vars == <<rules_in, pairs_in, rules, _contradictions>>
run_vars == <<heap, initial_facts, facts, given, max_iterations, iteration,
              changed, steps, rule_i, rerun, prev_changed>>

NoResult == [final_facts |-> "none", steps |-> <<>>, contradictions |-> <<>>]

\* the second call when it has not been made
NoCall2 ==
  [pc |-> "idle", heap |-> [r \in Refs |-> {}], facts |-> CallerRef,
   given |-> {}, max_iterations |-> 0, iteration |-> 0, changed |-> FALSE,
   steps |-> <<>>, rule_i |-> 0, result |-> NoResult]

\* the locals of run() when no call is active
NoRun ==
  /\ heap = [r \in Refs |-> {}]
  /\ initial_facts = CallerRef
  /\ facts = CallerRef
  /\ given = {}
  /\ max_iterations = 0
  /\ iteration = 0
  /\ changed = FALSE
  /\ steps = <<>>
  /\ rule_i = 0
  /\ rerun = FALSE
  /\ prev_changed = FALSE

\* the locals of a call go away
ResetRun ==
  /\ heap' = [r \in Refs |-> {}]
  /\ initial_facts' = CallerRef
  /\ facts' = CallerRef
  /\ given' = {}
  /\ max_iterations' = 0
  /\ iteration' = 0
  /\ changed' = FALSE
  /\ steps' = <<>>
  /\ rule_i' = 0
  /\ rerun' = FALSE
  /\ prev_changed' = FALSE

Init ==
  /\ rules_in = <<>>
  /\ pairs_in = <<>>
  /\ rules = <<>>
  /\ _contradictions = {}
  /\ NoRun
  /\ result = NoResult
  /\ pc = "new"
  /\ call2 = NoCall2
  /\ inserted = <<>>

(***************************************************************************)
(* Operations                                                              *)
(***************************************************************************)
\* a constructor that leaves out the rules that have no condition
Construct_drops_unconditional(cfgs) ==
  /\ pc = "new"
  /\ \E cfg \in cfgs :
       LET rl == cfg[1]
           pl == cfg[2]
       IN /\ rules_in' = rl
          /\ pairs_in' = pl
          /\ rules' = sort_rules(SelectSeq(rl, LAMBDA r : r.conditions # {}))
          /\ _contradictions' = AddAll({}, pl)
  /\ pc' = "idle"
  /\ UNCHANGED <<run_vars, result, call2, inserted>>

\* ReasoningEngine.__init__(rules, contradiction_pairs)
Construct(cfgs) ==
  /\ pc = "new"
  /\ \E cfg \in cfgs :
       LET rl == cfg[1]
           pl == cfg[2]
       IN /\ rules_in' = rl
          /\ pairs_in' = pl
          /\ rules' = sort_rules(rl)
          /\ _contradictions' = AddAll({}, pl)
  /\ pc' = "idle"
  /\ UNCHANGED <<run_vars, result, call2, inserted>>

\* engine.add_contradiction_pair(a, b), called between two runs
AddContradictionPair(ps) ==
  /\ pc \in {"idle", "done"}
  /\ Len(pairs_in) < MaxPairs
  /\ \E p \in ps :
       /\ _contradictions' = add_contradiction_pair(_contradictions, p[1], p[2])
       /\ pairs_in' = Append(pairs_in, p)
  /\ pc' = "idle"
  /\ result' = NoResult
  /\ ResetRun
  /\ UNCHANGED <<rules_in, rules, call2, inserted>>

\* an entry of run() that goes on with the step list of the call before
EnterRun_keeps_steps(init, mi, isRerun) ==
  LET loc == RunLocals([r \in Refs |-> IF r = CallerRef THEN init ELSE {}],
                       CallerRef)
  IN /\ heap' = loc.heap
     /\ initial_facts' = CallerRef
     /\ facts' = loc.facts
     /\ given' = init
     /\ max_iterations' = mi
     /\ iteration' = loc.iteration
     /\ changed' = loc.changed
     /\ steps' = steps
     /\ rule_i' = 0
     /\ rerun' = isRerun
     /\ prev_changed' = (isRerun /\ changed)
     /\ result' = NoResult
     /\ pc' = "while"
     /\ UNCHANGED <<engine_vars, call2, inserted>>

\* entry of run(initial_facts, max_iterations), lines 75-79, on a FactSet
\* the caller has built from the members init
EnterRun(init, mi, isRerun) ==
  LET loc == RunLocals([r \in Refs |-> IF r = CallerRef THEN init ELSE {}],
                       CallerRef)
  IN /\ heap' = loc.heap
     /\ initial_facts' = CallerRef
     /\ facts' = loc.facts
     /\ given' = init
     /\ max_iterations' = mi
     /\ iteration' = loc.iteration
     /\ changed' = loc.changed
     /\ steps' = loc.steps
     /\ rule_i' = 0
     /\ rerun' = isRerun
     /\ prev_changed' = (isRerun /\ changed)
     /\ result' = NoResult
     /\ pc' = "while"
     /\ UNCHANGED <<engine_vars, call2, inserted>>

\* engine.run(FactSet(init), mi)
Run(inits, mis) ==
  /\ pc = "idle"
  /\ \E init \in inits, mi \in mis : EnterRun(init, mi, FALSE)

\* engine.run(result.final_facts) or engine.run(result.final_facts, mi) with
\* the mi of the previous call: the previous result is the input
Rerun ==
  /\ pc = "done"
  /\ \E mi \in {max_iterations, DefaultMaxIterations} :
       EnterRun(heap[result.final_facts], mi, TRUE)

\* the locals of the active call
Locals ==
  [heap |-> heap, facts |-> facts, steps |-> steps,
   iteration |-> iteration, changed |-> changed]

\* "while changed and iteration < max_iterations", lines 81-83
WhileTest ==
  /\ pc = "while"
  /\ IF WhileCond(Locals, max_iterations)
       THEN /\ changed' = WhileHead(Locals).changed
            /\ iteration' = WhileHead(Locals).iteration
            /\ rule_i' = 1
            /\ pc' = "for"
       ELSE /\ pc' = "scan"
            /\ UNCHANGED <<changed, iteration, rule_i>>
  /\ UNCHANGED <<engine_vars, heap, initial_facts, facts, given,
                 max_iterations, steps, result, rerun, prev_changed, call2, inserted>>

\* one turn of "for rule in self.rules", lines 85-103
ForStep ==
  /\ pc = "for"
  /\ IF rule_i > Len(rules)
       THEN /\ pc' = "while"
            /\ UNCHANGED <<heap, steps, changed, rule_i>>
       ELSE LET out == ForBody(rules[rule_i], Locals)
            IN /\ heap' = out.heap
               /\ steps' = out.steps
               /\ changed' = out.changed
               /\ rule_i' = rule_i + 1
               /\ pc' = "for"
  /\ UNCHANGED <<engine_vars, initial_facts, facts, given, max_iterations,
                 iteration, result, rerun, prev_changed, call2, inserted>>

\* run(initial_facts, max_iterations) from its entry to the end of the while
\* loop, lines 75-103, in one step
RunLoop(inits, mis) ==
  /\ pc = "idle"
  /\ \E init \in inits, mi \in mis :
       \E loc \in {run(rules, init, mi)} :
          /\ heap' = loc.heap
          /\ initial_facts' = CallerRef
          /\ facts' = loc.facts
          /\ given' = init
          /\ max_iterations' = mi
          /\ iteration' = loc.iteration
          /\ changed' = loc.changed
          /\ steps' = loc.steps
          /\ rule_i' = IF loc.iteration = 0 THEN 0 ELSE Len(rules) + 1
  /\ rerun' = FALSE
  /\ prev_changed' = FALSE
  /\ result' = NoResult
  /\ pc' = "scan"
  /\ UNCHANGED <<engine_vars, call2, inserted>>

\* a scan that takes the members of the pairs it reports out of the facts
Scan_retracts ==
  /\ pc = "scan"
  /\ LET present == heap[facts]
         hits == Hits(_contradictions, present)
     IN IF ScanRaises(_contradictions, present)
          THEN /\ pc' = "raised"
               /\ result' = NoResult
               /\ heap' = heap
          ELSE /\ \E order \in Orderings(hits) :
                    result' = [final_facts |-> facts,
                               steps |-> steps,
                               contradictions |->
                                 [i \in 1..Len(order) |-> SortedPair(order[i])]]
               /\ heap' = [heap EXCEPT ![facts] = present \ UNION hits]
               /\ pc' = "done"
  /\ UNCHANGED <<engine_vars, initial_facts, facts, given, max_iterations,
                 iteration, changed, steps, rule_i, rerun, prev_changed,
                 call2, inserted>>

\* lines 105-106: _find_contradictions and the return of the result; the
\* iteration order of the set self._contradictions is not fixed
Scan ==
  /\ pc = "scan"
  /\ \E present \in {set(to_list(heap[facts]))} :
       IF ScanRaises(_contradictions, present)
         THEN /\ pc' = "raised"
              /\ result' = NoResult
         ELSE /\ \E order \in Orderings(Hits(_contradictions, present)) :
                   result' = [final_facts |-> facts,
                              steps |-> steps,
                              contradictions |->
                                [i \in 1..Len(order) |-> SortedPair(order[i])]]
              /\ pc' = "done"
  /\ UNCHANGED <<engine_vars, run_vars, call2, inserted>>

\* the caller adds a fact to its own FactSet after the run has returned
CallerAdd ==
  /\ pc = "done"
  /\ \E f \in Facts :
       /\ f \notin heap[initial_facts]
       /\ heap' = add(heap, initial_facts, f)
  /\ pc' = "touched"
  /\ UNCHANGED <<engine_vars, initial_facts, facts, given, max_iterations,
                 iteration, changed, steps, rule_i, result, rerun,
                 prev_changed, call2, inserted>>

\* the caller drops the outcome of the run; the engine is kept
Discard ==
  /\ pc \in {"done", "touched", "raised"}
  /\ pc' = "idle"
  /\ result' = NoResult
  /\ ResetRun
  /\ UNCHANGED <<engine_vars, call2, inserted>>

(***************************************************************************)
(* The caller builds its FactSet                                           *)
(***************************************************************************)
\* fs.add(fact) on the caller's FactSet
FsAdd ==
  /\ pc = "new"
  /\ Len(inserted) < MaxOps
  /\ \E f \in Facts :
       /\ heap' = add(heap, CallerRef, f)
       /\ inserted' = Append(inserted, f)
  /\ UNCHANGED <<engine_vars, initial_facts, facts, given, max_iterations,
                 iteration, changed, steps, rule_i, rerun, prev_changed,
                 result, pc, call2>>

\* fs.update(facts) on the caller's FactSet, with a list out of ls
FsUpdate(ls) ==
  /\ pc = "new"
  /\ \E l \in ls :
       /\ Len(inserted) + Len(l) <= MaxOps
       /\ heap' = update(heap, CallerRef, set(l))
       /\ inserted' = inserted \o l
  /\ UNCHANGED <<engine_vars, initial_facts, facts, given, max_iterations,
                 iteration, changed, steps, rule_i, rerun, prev_changed,
                 result, pc, call2>>

(***************************************************************************)
(* A second call of run() on the same engine, made by another thread while *)
(* the first call may be active.  It reads self.rules and                  *)
(* self._contradictions of the one engine; its arguments, locals and       *)
(* FactSet objects are its own                                             *)
(***************************************************************************)
\* the locals of the second call
Locals2 ==
  [heap |-> call2.heap, facts |-> call2.facts, steps |-> call2.steps,
   iteration |-> call2.iteration, changed |-> call2.changed]

\* entry of the second call, lines 75-79, on its own FactSet with the
\* members init or on the FactSet object the first call was given
Run2(inits, mis) ==
  /\ pc # "new"
  /\ call2.pc = "idle"
  /\ \E init \in inits \cup (IF pc \in {"while", "for", "scan"}
                               THEN {heap[initial_facts]} ELSE {}),
        mi \in mis :
       LET loc == RunLocals([r \in Refs |-> IF r = CallerRef THEN init ELSE {}],
                            CallerRef)
       IN call2' = [pc |-> "while", heap |-> loc.heap, facts |-> loc.facts,
                    given |-> init, max_iterations |-> mi,
                    iteration |-> loc.iteration, changed |-> loc.changed,
                    steps |-> loc.steps, rule_i |-> 0, result |-> NoResult]
  /\ UNCHANGED <<engine_vars, run_vars, result, pc, inserted>>

\* the loop test of the second call, lines 81-83
WhileTest2 ==
  /\ call2.pc = "while"
  /\ call2' = IF WhileCond(Locals2, call2.max_iterations)
                THEN [call2 EXCEPT !.changed = WhileHead(Locals2).changed,
                                   !.iteration = WhileHead(Locals2).iteration,
                                   !.rule_i = 1,
                                   !.pc = "for"]
                ELSE [call2 EXCEPT !.pc = "scan"]
  /\ UNCHANGED <<engine_vars, run_vars, result, pc, inserted>>

\* a loop turn of the second call that keeps its steps in the list of the
\* first call
ForStep2_shared_steps ==
  /\ call2.pc = "for"
  /\ IF call2.rule_i > Len(rules)
       THEN /\ call2' = [call2 EXCEPT !.pc = "while"]
            /\ steps' = steps
       ELSE LET out == ForBody(rules[call2.rule_i], Locals2)
            IN /\ call2' = [call2 EXCEPT !.heap = out.heap,
                                         !.steps = out.steps,
                                         !.changed = out.changed,
                                         !.rule_i = call2.rule_i + 1]
               /\ steps' = steps \o SubSeq(out.steps, Len(call2.steps) + 1,
                                            Len(out.steps))
  /\ UNCHANGED <<engine_vars, heap, initial_facts, facts, given,
                 max_iterations, iteration, changed, rule_i, rerun,
                 prev_changed, result, pc, inserted>>

\* one turn of the for loop of the second call, lines 85-103
ForStep2 ==
  /\ call2.pc = "for"
  /\ call2' = IF call2.rule_i > Len(rules)
                THEN [call2 EXCEPT !.pc = "while"]
                ELSE LET out == ForBody(rules[call2.rule_i], Locals2)
                     IN [call2 EXCEPT !.heap = out.heap,
                                      !.steps = out.steps,
                                      !.changed = out.changed,
                                      !.rule_i = call2.rule_i + 1]
  /\ UNCHANGED <<engine_vars, run_vars, result, pc, inserted>>

\* the scan and the return of the second call, lines 105-106
Scan2 ==
  /\ call2.pc = "scan"
  /\ LET fs == call2.heap[call2.facts]
         present == {to_list(fs)[i] : i \in 1..Cardinality(fs)}
     IN IF ScanRaises(_contradictions, present)
          THEN call2' = [call2 EXCEPT !.pc = "raised"]
          ELSE \E order \in Orderings(Hits(_contradictions, present)) :
                  call2' = [call2 EXCEPT
                              !.result =
                                 [final_facts |-> call2.facts,
                                  steps |-> call2.steps,
                                  contradictions |->
                                    [i \in 1..Len(order) |->
                                       SortedPair(order[i])]],
                              !.pc = "done"]
  /\ UNCHANGED <<engine_vars, run_vars, result, pc, inserted>>

(***************************************************************************)
(* Inputs of the specification                                             *)
(***************************************************************************)
\* synthetic rules over Facts: a chain in both library orders, a key shared
\* by two rules, joint conditions, several conclusions, no condition
RulePool ==
  { Rule(1, {1}, {2}, 0),
    Rule(2, {2}, {3}, 1),
    Rule(1, {2}, {3}, 0),
    Rule(2, {1, 2}, {3}, 0),
    Rule(1, {1}, {2, 3}, 1),
    Rule(2, {}, {1}, 0) }

\* the contradiction pairs registered with the synthetic rules
SynthPairs == << <<1, 2>>, <<3, 2>> >>


\* initial facts of test_destruction_complex_high_drives_beta_cat_down
WntHighDC ==
  {LRP6_PROTEIN_PRESENT, LRP6_SER_SITES_INTACT, FRIZZLED_PROTEIN_PRESENT,
   DESTRUCTION_COMPLEX_ACTIVITY_HIGH}

\* Wnt ligand, LRP6 and Frizzled without intact LRP6 serine sites
WntMutLrp6 ==
  {WNT_LIGAND_PRESENT, LRP6_PROTEIN_PRESENT, FRIZZLED_PROTEIN_PRESENT}

\* the initial facts of the scenarios
WntInits == {WntHighDC, WntMutLrp6}

\* sequences over S of length at most n
RECURSIVE SeqsUpTo(_, _)
SeqsUpTo(S, n) ==
  IF n = 0 THEN {<<>>}
  ELSE LET shorter == SeqsUpTo(S, n - 1)
       IN shorter \cup {Append(s, x) : s \in {t \in shorter : Len(t) = n - 1}, x \in S}

\* the constructor arguments: every list of synthetic rules with the
\* synthetic pairs, and the default library with the default pairs
Configs ==
  (SeqsUpTo(RulePool, MaxRules) \X {SynthPairs})
    \cup {<<build_default_wnt_rules, DEFAULT_CONTRADICTIONS>>}
InitSets == (SUBSET Facts) \cup WntInits
MIs == ((0 - 1)..MaxIter) \cup {DefaultMaxIterations}

\* engines over the rule libraries, run on every initial FactSet
Next ==
  \/ Construct(Configs)
  \/ Run(InitSets, MIs)
  \/ Rerun
  \/ WhileTest
  \/ ForStep
  \/ Scan
  \/ CallerAdd
  \/ Discard

Spec == Init /\ [][Next]_vars

\* the pairs registered in the runs on the registry: both orders of a pair,
\* pairs of a fact with itself, and a second pair
PairPool == {<<1, 2>>, <<2, 1>>, <<1, 1>>, <<2, 2>>, <<2, 3>>}

\* engines with at most one rule and every registry of pairs of the pool
RegConfigs ==
  {rl \in SeqsUpTo(RulePool, MaxRules) : Len(rl) <= 1}
    \X SeqsUpTo(PairPool, MaxPairs)

NextReg ==
  \/ Construct(RegConfigs)
  \/ AddContradictionPair(PairPool)
  \/ Run(SUBSET Facts, {DefaultMaxIterations})
  \/ WhileTest
  \/ ForStep
  \/ Scan
  \/ Discard

SpecReg == Init /\ [][NextReg]_vars

\* engines whose runs are carried through: run() has no suspension point, so
\* an active call goes on with its next loop test, loop turn or scan; the
\* rule lists are given in library order and without repetition
LiveConfigs ==
  {cfg \in Configs :
     /\ cfg[1] = sort_rules(cfg[1])
     /\ \A i, j \in 1..Len(cfg[1]) : i # j => cfg[1][i] # cfg[1][j]}

NextLive ==
  \/ Construct(LiveConfigs)
  \/ Run(InitSets, MIs)
  \/ WhileTest
  \/ ForStep
  \/ Scan
  \/ Discard

SpecLive ==
  /\ Init /\ [][NextLive]_vars
  /\ WF_vars(WhileTest) /\ WF_vars(ForStep) /\ WF_vars(Scan)

\* the initial facts and the caps of the calls made at the same time
ConcInits == {{}, {1}, {1, 2}}
ConcMIs == {1, DefaultMaxIterations}

\* two calls on one engine, in every interleaving of their loop tests, loop
\* turns and scans
NextConc ==
  \/ Construct(LiveConfigs)
  \/ Run(ConcInits, ConcMIs)
  \/ WhileTest
  \/ ForStep
  \/ Scan
  \/ Run2(ConcInits, ConcMIs)
  \/ WhileTest2
  \/ ForStep2
  \/ Scan2

SpecConc == Init /\ [][NextConc]_vars

\* initial facts of
\* test_wnt_present_drives_beta_cat_up_with_signalosome_and_contradiction_to_baseline
WntActivation ==
  {WNT_LIGAND_PRESENT, LRP6_PROTEIN_PRESENT, LRP6_SER_SITES_INTACT,
   FRIZZLED_PROTEIN_PRESENT, BETA_CAT_LEVEL_BASELINE}

\* initial facts of
\* test_no_wnt_defaults_to_high_destruction_complex_and_beta_cat_down
WntOffBaseline ==
  {LRP6_PROTEIN_PRESENT, LRP6_SER_SITES_INTACT, FRIZZLED_PROTEIN_PRESENT,
   WNT_STATE_OFF}

\* initial facts of
\* test_wnt_signalosome_lowers_destruction_complex_and_flags_conflict_when_high
WntConflict ==
  {WNT_LIGAND_PRESENT, LRP6_PROTEIN_PRESENT, LRP6_SER_SITES_INTACT,
   FRIZZLED_PROTEIN_PRESENT, DESTRUCTION_COMPLEX_ACTIVITY_HIGH}

\* the initial facts of the scenarios of the tests
ScenarioInits ==
  {WntActivation, WntOffBaseline, WntConflict, WntHighDC, WntMutLrp6}

\* make_engine() of the tests
WntConfigs == {<<build_default_wnt_rules, DEFAULT_CONTRADICTIONS>>}

\* the engine of the tests, run on the scenarios with every cap
NextWnt ==
  \/ Construct(WntConfigs)
  \/ Run(ScenarioInits, MIs)
  \/ WhileTest
  \/ ForStep
  \/ Scan
  \/ Discard

SpecWnt == Init /\ [][NextWnt]_vars

\* the facts that stand in a condition of a rule of the default library
ConditionFacts ==
  UNION {build_default_wnt_rules[k].conditions :
           k \in 1..Len(build_default_wnt_rules)}

\* the facts that stand in a rule of the default library
RuleVocabulary ==
  ConditionFacts \cup UNION {build_default_wnt_rules[k].conclusions :
                               k \in 1..Len(build_default_wnt_rules)}

\* the facts no rule of the default library concludes
RootFacts ==
  RuleVocabulary \ UNION {build_default_wnt_rules[k].conclusions :
                            k \in 1..Len(build_default_wnt_rules)}

\* the initial fact sets of the runs on the depth of the default library:
\* every set of condition facts, and every set of root facts with every set
\* of facts that stand in conclusions only
DepthInits ==
  (SUBSET ConditionFacts)
    \cup {r \cup e : r \in SUBSET RootFacts,
                    e \in SUBSET (RuleVocabulary \ ConditionFacts)}

\* the caps of three passes and more
DepthMIs == (3..MaxIter) \cup {DefaultMaxIterations}

\* the engine of the tests, run to the end of its loop on every initial
\* fact set
NextDepth ==
  \/ Construct(WntConfigs)
  \/ RunLoop(DepthInits, DepthMIs)
  \/ Scan
  \/ Discard

SpecDepth == Init /\ [][NextDepth]_vars

\* a FactSet built by add and update calls, with lists of up to two facts
NextFacts ==
  \/ FsAdd
  \/ FsUpdate(SeqsUpTo(Facts, 2))

SpecFacts == Init /\ [][NextFacts]_vars

(***************************************************************************)
(* Properties                                                              *)
(***************************************************************************)
\* a call of run() is active or has just returned
InRun == pc \in {"while", "for", "scan", "done"}

\* a call of run() is between its entry and its return
Running == pc \in {"while", "for", "scan"}

\* C1: the working fact set contains the initial facts at every point of a
\* run and in the returned result, and no turn of the for loop removes a
\* fact from it
C1_Monotonicity ==
  /\ [](InRun => given \subseteq heap[facts])
  /\ [](pc = "done" => given \subseteq heap[result.final_facts])
  /\ [][pc = "for" => heap[facts] \subseteq heap'[facts']]_vars

\* a returned run with initial facts in which two rules fired
C1_Witness == pc = "done" /\ given # {} /\ Len(result.steps) >= 2

\* C2: from the entry of run() to its return the caller's FactSet keeps
\* exactly the members it had at the call and is another object than the
\* working FactSet; a fact the caller adds afterwards does not reach the
\* returned final_facts
C2_CallerUnchanged ==
  /\ [](Running => facts # initial_facts)
  /\ [][Running => heap[initial_facts] = given
                    /\ heap'[initial_facts'] = given]_vars
  /\ [][pc = "done" /\ pc' = "touched" =>
          heap'[result'.final_facts] = heap[result.final_facts]]_vars

\* a returned run in which a rule fired, after which the caller added a fact
\* that is not among the final facts
C2_Witness ==
  /\ pc = "touched"
  /\ result.steps # <<>>
  /\ \E f \in heap[initial_facts] \ given : f \notin heap[result.final_facts]

\* the members of a sequence
Range(s) == {s[i] : i \in 1..Len(s)}

\* the reorderings of a list: every permutation of a short list; of a longer
\* list its reversal, its rotations and its swaps of two neighbours
Reorderings(l) ==
  LET n == Len(l)
      rev == [i \in 1..n |-> l[n + 1 - i]]
      rot(k) == [i \in 1..n |-> l[((i + k - 1) % n) + 1]]
      swap(k) == [i \in 1..n |-> IF i = k THEN l[k + 1]
                                 ELSE IF i = k + 1 THEN l[k] ELSE l[i]]
  IN IF n <= MaxRules + 1
       THEN {[i \in 1..n |-> l[p[i]]] : p \in Orderings(1..n)}
       ELSE {rev} \cup {rot(k) : k \in 1..n} \cup {swap(k) : k \in 1..(n - 1)}

\* the facts and the contradictions at the end of the locals loc are those of
\* the returned result
SameOutcome(loc) ==
  /\ FactsOf(loc) = heap[result.final_facts]
  /\ Reported(_contradictions, FactsOf(loc)) = Range(result.contradictions)

\* no two rules of the list have the same (priority, name)
DistinctKeys(l) ==
  \A i, j \in 1..Len(l) : i # j => SortKey(l[i]) # SortKey(l[j])

\* C3 as stated: every run on the final facts of the previous run of the
\* engine returns them unchanged, with no step
C3_Original ==
  (pc = "done" /\ rerun) =>
     heap[result.final_facts] = given /\ result.steps = <<>>

\* C3: a run on the final facts of a previous run that had converged (left
\* its loop with changed false) returns them unchanged, with no step
C3_RerunOfConverged ==
  (pc = "done" /\ rerun /\ ~prev_changed) =>
     heap[result.final_facts] = given /\ result.steps = <<>>

\* the rerun of a converged run has returned; it made a pass over rules of
\* which one is applicable to its input
C3_Witness ==
  /\ pc = "done" /\ rerun /\ ~prev_changed
  /\ iteration >= 1
  /\ \E i \in 1..Len(rules) :
       rules[i].conditions # {} /\ is_applicable(rules[i], given)

\* C4 as stated: an engine built from any reordering of the rule list returns
\* the same final facts and the same contradictions
C4_Original ==
  pc = "done" =>
     \A p \in Reorderings(rules_in) :
        SameOutcome(run(sort_rules(p), given, max_iterations))

\* C4: an engine built from any reordering of the rule list returns the same
\* final facts and the same contradictions, provided no two rules of the list
\* share priority and name, or both runs converge
C4_OrderOfConstruction ==
  pc = "done" =>
     \A p \in Reorderings(rules_in) :
        LET other == run(sort_rules(p), given, max_iterations)
        IN (DistinctKeys(rules_in) \/ (~changed /\ ~other.changed))
             => SameOutcome(other)

\* a truncated run in which a rule fired has returned, on an engine whose two
\* or more rules have distinct keys and were not given in library order
C4_Witness ==
  /\ pc = "done" /\ changed /\ result.steps # <<>>
  /\ Len(rules_in) >= 2 /\ DistinctKeys(rules_in) /\ rules # rules_in

\* C5 as stated: every application order of the same rules gives the same
\* final facts
C5_Original ==
  pc = "done" =>
     \A q \in Reorderings(rules) :
        FactsOf(run(q, given, max_iterations)) = heap[result.final_facts]

\* C5: every application order of the same rules under which the run
\* converges gives the final facts of the converged run
C5_FixedPoint ==
  (pc = "done" /\ ~changed) =>
     \A q \in Reorderings(rules) :
        LET other == run(q, given, max_iterations)
        IN ~other.changed => FactsOf(other) = heap[result.final_facts]

\* a converged run has returned and another application order converges
\* with another trace
C5_Witness ==
  /\ pc = "done" /\ ~changed
  /\ \E q \in Reorderings(rules) :
       LET other == run(q, given, max_iterations)
       IN ~other.changed /\ other.steps # result.steps

\* C6: a turn of the for loop on rule R with working facts W appends one step
\* (R, conclusions(R) \ W) if conditions(R) is within W and that set is not
\* empty, and otherwise appends nothing and leaves W as it is; the result
\* returns these steps
C6_TraceMinimality ==
  /\ [][(pc = "for" /\ rule_i <= Len(rules)) =>
          LET R == rules[rule_i]
              W == heap[facts]
              N == R.conclusions \ W
          IN IF R.conditions \subseteq W /\ N # {}
               THEN /\ Len(steps') = Len(steps) + 1
                    /\ SubSeq(steps', 1, Len(steps)) = steps
                    /\ steps'[Len(steps')].rule_name = R.name
                    /\ steps'[Len(steps')].new_facts = N
                    /\ heap'[facts'] = W \cup N
               ELSE steps' = steps /\ heap'[facts'] = W]_vars
  /\ [](pc = "done" =>
          /\ result.steps = steps
          /\ \A i \in 1..Len(steps) : steps[i].new_facts # {})

\* a run has returned a step whose new facts are only a part of the
\* conclusions of its rule
C6_Witness ==
  /\ pc = "done"
  /\ \E i \in 1..Len(result.steps) :
       \A j \in 1..Len(rules) :
          rules[j].name = result.steps[i].rule_name
            => result.steps[i].new_facts # rules[j].conclusions

\* the fact set fs is closed under the rules rs
Closed(rs, fs) ==
  \A i \in 1..Len(rs) :
     rs[i].conditions \subseteq fs => rs[i].conclusions \subseteq fs

\* C7: when the loop is left with changed false, the working facts, which
\* are the returned final facts, are closed under the rules of the engine
C7_ClosureOnConvergence ==
  /\ (pc \in {"scan", "done"} /\ ~changed) => Closed(rules, heap[facts])
  /\ (pc = "done" /\ ~changed) => Closed(rules, heap[result.final_facts])

\* a run has converged after two passes that added facts
C7_Witness ==
  /\ pc = "done" /\ ~changed /\ iteration >= 3
  /\ \E i \in 1..Len(result.steps) : result.steps[i].iteration_index = 2

\* the least superset of fs that is closed under the rules rs
RECURSIVE LeastClosed(_, _)
LeastClosed(rs, fs) ==
  LET more == fs \cup UNION {rs[i].conclusions :
                               i \in {j \in 1..Len(rs) : rs[j].conditions \subseteq fs}}
  IN IF more = fs THEN fs ELSE LeastClosed(rs, more)

\* C8: the final facts lie within the least superset of the initial facts
\* closed under the rules and are that set when the run converges; every
\* derived fact is concluded by a rule whose conditions are final facts; the
\* default library derives beta-catenin DOWN and no other level from the
\* high-destruction-complex input, and forms the signalosome without
\* activating LRP6 from the input without intact serine sites
C8_Soundness ==
  pc = "done" =>
     LET final == heap[result.final_facts]
     IN /\ final \subseteq LeastClosed(rules, given)
        /\ ~changed => final = LeastClosed(rules, given)
        /\ \A f \in final \ given :
              \E i \in 1..Len(rules) :
                 f \in rules[i].conclusions /\ rules[i].conditions \subseteq final
        /\ (rules_in = build_default_wnt_rules /\ given = WntHighDC) =>
              /\ max_iterations >= 1 => BETA_CAT_LEVEL_DOWN \in final
              /\ BETA_CAT_LEVEL_BASELINE \notin final
              /\ BETA_CAT_LEVEL_UP \notin final
        /\ (rules_in = build_default_wnt_rules /\ given = WntMutLrp6) =>
              /\ max_iterations >= 1 => SIGNALOSOME_STATE_FORMED \in final
              /\ LRP6_SER_SITES_P \notin final
              /\ LRP6_SIGNALING_ACTIVE \notin final
              /\ BETA_CAT_LEVEL_UP \notin final

\* the default library has run to convergence on the input with high
\* destruction-complex activity
C8_Witness ==
  /\ pc = "done" /\ ~changed
  /\ rules_in = build_default_wnt_rules
  /\ given = WntHighDC
  /\ max_iterations = DefaultMaxIterations
  /\ result.steps # <<>>

\* C9: the pairs of a returned result are the registered pairs with both
\* members among the final facts
C9_ContradictionsExact ==
  pc = "done" =>
     {{t[1], t[2]} : t \in Range(result.contradictions)}
       = {pair \in _contradictions : pair \subseteq heap[result.final_facts]}

\* a run has returned one registered pair and not another one, of which it
\* has one member
C9_Witness ==
  /\ pc = "done"
  /\ result.contradictions # <<>>
  /\ \E pair \in _contradictions :
       /\ Cardinality(pair) = 2
       /\ Cardinality(pair \cap heap[result.final_facts]) = 1

\* the pair list pl with the members of the pairs at the positions S swapped
SwapAt(pl, S) ==
  [i \in 1..Len(pl) |-> IF i \in S THEN <<pl[i][2], pl[i][1]>> ELSE pl[i]]

\* the reorderings of a pair list with any of their pairs swapped, and the
\* pair list followed by a copy of one of its pairs or of itself
Variants(pl) ==
  {SwapAt(q, S) : q \in Reorderings(pl), S \in SUBSET (1..Len(pl))}
    \cup {Append(pl, pl[i]) : i \in 1..Len(pl)}
    \cup {pl \o pl}

\* C10: adding (a, b) or (b, a) gives the same registry, adding a stored
\* pair in either order changes nothing, and the registry and the reported
\* contradictions are those of every reordered, swapped or duplicated list
\* of the pairs registered so far
C10_SymmetryDedup ==
  /\ \A a, b \in Facts :
        /\ add_contradiction_pair(_contradictions, a, b)
             = add_contradiction_pair(_contradictions, b, a)
        /\ {a, b} \in _contradictions =>
             add_contradiction_pair(_contradictions, a, b) = _contradictions
  /\ \A v \in Variants(pairs_in) :
        /\ AddAll({}, v) = _contradictions
        /\ pc = "done" =>
             Reported(AddAll({}, v), heap[result.final_facts])
               = Range(result.contradictions)

\* a run has returned a contradiction from a registry to which one pair was
\* given twice, once with its members in descending order
C10_Witness ==
  /\ pc = "done"
  /\ result.contradictions # <<>>
  /\ Len(pairs_in) > Cardinality(_contradictions)
  /\ \E i \in 1..Len(pairs_in) : pairs_in[i][1] > pairs_in[i][2]

\* C11: every entry of the returned contradictions is a pair (a, b) with
\* a < b, and no pair is listed twice, however often and in whichever order
\* of its members it was registered
C11_PairsSortedOnce ==
  pc = "done" =>
     /\ \A i \in 1..Len(result.contradictions) :
           /\ Len(result.contradictions[i]) = 2
           /\ result.contradictions[i][1] < result.contradictions[i][2]
     /\ \A i, j \in 1..Len(result.contradictions) :
           i # j => result.contradictions[i] # result.contradictions[j]

\* a run has returned a pair that was registered twice, once in each order of
\* its members
C11_Witness ==
  /\ pc = "done"
  /\ \E i, j \in 1..Len(pairs_in) :
       /\ i # j
       /\ pairs_in[i][1] < pairs_in[i][2]
       /\ pairs_in[j] = <<pairs_in[i][2], pairs_in[i][1]>>
       /\ pairs_in[i] \in Range(result.contradictions)

\* C12: the returned final facts and steps are those of the loop alone, which
\* reads no registry; the scan starts only when the loop has ended and
\* changes neither the working facts nor the steps
C12_ScanApart ==
  /\ [](pc = "done" =>
          LET alone == run(rules, given, max_iterations)
          IN /\ heap[result.final_facts] = FactsOf(alone)
             /\ result.steps = alone.steps)
  /\ [][pc = "scan" => heap'[facts'] = heap[facts] /\ steps' = steps]_vars
  /\ [][(pc # "scan" /\ pc' = "scan") =>
          pc = "while" /\ ~WhileCond(Locals, max_iterations)]_vars

\* a run has returned a contradiction that has a derived fact as a member
C12_Witness ==
  /\ pc = "done"
  /\ result.steps # <<>>
  /\ \E i \in 1..Len(result.contradictions) :
       \E k \in 1..2 : result.contradictions[i][k] \notin given

\* C13: with max_iterations <= 0 the loop is left at its first test: no pass
\* is made, no step is recorded, and the final facts are the initial facts
C13_NoPassAtZero ==
  /\ [][(pc = "while" /\ max_iterations <= 0) => pc' \in {"while", "scan"}]_vars
  /\ []((pc \in {"scan", "done"} /\ max_iterations <= 0) =>
          iteration = 0 /\ steps = <<>> /\ heap[facts] = given)
  /\ []((pc = "done" /\ max_iterations <= 0) =>
          result.steps = <<>> /\ heap[result.final_facts] = given)

\* a run with max_iterations = 0 has returned on an engine with a rule that
\* is applicable to the initial facts and concludes a fact not among them
C13_Witness ==
  /\ pc = "done"
  /\ max_iterations = 0
  /\ \E i \in 1..Len(rules) :
       /\ is_applicable(rules[i], given)
       /\ new_facts_if_applied(rules[i], given) # {}

\* the run has left its loop on the cap after a pass that added facts
Truncated == changed /\ iteration >= 1

\* C14: a run makes at most max_iterations passes and no step has an
\* iteration index above max_iterations; a run whose max_iterations-th pass
\* added facts goes on to the scan and returns, without an error, the facts
\* and the steps it has, which begin the steps of the unbounded run, with the
\* contradictions among those facts (registries of pairs of distinct facts)
C14_SilentTruncation ==
  /\ [](InRun => /\ (iteration = 0 \/ iteration <= max_iterations)
                 /\ \A i \in 1..Len(steps) :
                       steps[i].iteration_index <= max_iterations)
  /\ [](pc # "raised")
  /\ [][(pc = "while" /\ Truncated /\ iteration = max_iterations)
          => pc' \in {"while", "scan"}]_vars
  /\ [][(pc = "scan" /\ Truncated) => pc' \in {"scan", "done"}]_vars
  /\ []((pc = "done" /\ Truncated) =>
          LET full == run(rules, given, DefaultMaxIterations)
          IN /\ iteration = max_iterations
             /\ result.steps = steps
             /\ Len(steps) <= Len(full.steps)
             /\ steps = SubSeq(full.steps, 1, Len(steps))
             /\ heap[result.final_facts] = heap[facts]
             /\ heap[facts] = given \cup UNION {steps[i].new_facts :
                                                 i \in 1..Len(steps)}
             /\ Range(result.contradictions)
                  = Reported(_contradictions, heap[facts]))

\* a truncated run has returned steps, fewer than the unbounded run makes,
\* and a contradiction
C14_Witness ==
  /\ pc = "done" /\ Truncated
  /\ Len(result.steps) < Len(run(rules, given, DefaultMaxIterations).steps)
  /\ result.contradictions # <<>>

\* C15 as stated: the number of steps reaches max_iterations exactly when the
\* run stopped on the cap while its last pass was adding facts
C15_Original ==
  pc = "done" => (Len(result.steps) >= max_iterations <=> changed)

\* C15: for max_iterations >= 1 the run was truncated exactly when its last
\* step has the iteration index max_iterations; a truncated run has at least
\* max_iterations steps, and a run with fewer steps has converged
C15_TruncationInTrace ==
  (pc = "done" /\ max_iterations >= 1) =>
     LET n == Len(result.steps)
     IN /\ changed <=> (n >= 1 /\ result.steps[n].iteration_index = max_iterations)
        /\ changed => n >= max_iterations
        /\ n < max_iterations => ~changed

\* a converged run has returned as many steps as max_iterations or more
C15_Witness ==
  /\ pc = "done" /\ ~changed
  /\ max_iterations >= 1
  /\ Len(result.steps) >= max_iterations

\* the facts that a run from init can add under the rules rs
Addable(rs, init) == LeastClosed(rs, init) \ init

\* the conclusion facts of the rules rs that are not in init
ConclusionsNotIn(rs, init) ==
  UNION {rs[i].conclusions : i \in 1..Len(rs)} \ init

Before(st, init, i) == init \cup UNION {st[j].new_facts : j \in 1..(i - 1)}
After(st, init, i) == init \cup UNION {st[j].new_facts : j \in 1..i}

\* the positions in the trace st of the steps of the rule called name
StepsOf(st, name) == {j \in 1..Len(st) : st[j].rule_name = name}

\* no two rules of the list have the same name
DistinctNames(l) ==
  \A i, j \in 1..Len(l) : i # j => l[i].name # l[j].name

\* C17: a turn of the for loop tests its rule against the initial facts with
\* the new facts of all steps so far, those of the current pass included.
\* Hence, in a library of distinctly named rules, when the step of rule A in
\* pass k completes the conditions of rule B: B has no earlier step; if A
\* precedes B, B fires in pass k, unless its conclusions are all present by
\* then; if B precedes A, B does not fire in pass k and fires in pass k + 1,
\* unless that pass is not made or its conclusions are all present by then
C17_NotSnapshots ==
  /\ [][(pc = "for" /\ rule_i <= Len(rules)) =>
          LET W == After(steps, given, Len(steps))
          IN (Len(steps') = Len(steps) + 1)
               <=> /\ is_applicable(rules[rule_i], W)
                   /\ new_facts_if_applied(rules[rule_i], W) # {}]_vars
  /\ []((pc = "done" /\ DistinctNames(rules)) =>
          \A i \in 1..Len(steps) : \A a, b \in 1..Len(rules) :
             LET k == steps[i].iteration_index
                 B == rules[b]
                 fired == StepsOf(steps, B.name)
             IN (/\ steps[i].rule_name = rules[a].name
                 /\ B.conditions \subseteq After(steps, given, i)
                 /\ ~(B.conditions \subseteq Before(steps, given, i)))
                => /\ a # b
                   /\ \A j \in fired : j > i
                   /\ fired = {} => (B.conclusions \subseteq heap[facts]
                                      \/ (b < a /\ k = max_iterations))
                   /\ a < b => \A j \in fired : steps[j].iteration_index = k
                   /\ b < a => \A j \in fired : steps[j].iteration_index = k + 1)

\* a run has returned two steps of one pass of which the earlier one
\* completed the conditions of the rule of the later one
C17_Witness ==
  /\ pc = "done" /\ DistinctNames(rules)
  /\ \E i, j \in 1..Len(steps) : \E b \in 1..Len(rules) :
       /\ i < j
       /\ steps[i].iteration_index = steps[j].iteration_index
       /\ steps[j].rule_name = rules[b].name
       /\ rules[b].conditions \subseteq After(steps, given, i)
       /\ ~(rules[b].conditions \subseteq Before(steps, given, i))

\* C18: a step is appended by the turn of the for loop for its rule, with
\* the index of the current pass; along the returned list the iteration
\* index starts at 1 and goes up by 0 or 1 from one step to the next, and of
\* two steps of one pass the earlier one names a rule that stands earlier in
\* the library, with a priority/name key that is not greater
C18_FiringOrder ==
  /\ [][Len(steps') > Len(steps) =>
          /\ pc = "for" /\ rule_i <= Len(rules) /\ rule_i' = rule_i + 1
          /\ steps' = Append(steps, steps'[Len(steps')])
          /\ steps'[Len(steps')].rule_name = rules[rule_i].name
          /\ steps'[Len(steps')].iteration_index = iteration]_vars
  /\ [](pc = "done" =>
          /\ result.steps # <<>> => result.steps[1].iteration_index = 1
          /\ \A i \in 1..(Len(result.steps) - 1) :
                LET d == result.steps[i + 1].iteration_index
                           - result.steps[i].iteration_index
                IN d = 0 \/ d = 1
          /\ \A i, j \in 1..Len(result.steps) :
                (i < j /\ result.steps[i].iteration_index
                            = result.steps[j].iteration_index)
                => \E a, b \in 1..Len(rules) :
                      /\ a < b
                      /\ rules[a].name = result.steps[i].rule_name
                      /\ rules[b].name = result.steps[j].rule_name
                      /\ ~KeyLess(SortKey(rules[b]), SortKey(rules[a])))

\* a run has returned two steps of one pass, by two rules that were not given
\* in library order
C18_Witness ==
  /\ pc = "done"
  /\ rules # rules_in
  /\ \E i, j \in 1..Len(result.steps) :
       /\ i < j
       /\ result.steps[i].iteration_index = result.steps[j].iteration_index
       /\ result.steps[i].rule_name < result.steps[j].rule_name

\* C19: the final facts and the steps a call returns are those that the rule
\* list, the initial facts and max_iterations determine, whatever calls the
\* engine has served before; a call changes neither the rule list nor the
\* registry; an engine built from any reordering of a rule list without two
\* rules of the same priority and name returns the same steps
C19_Determinism ==
  /\ [](pc = "done" =>
          LET alone == run(rules, given, max_iterations)
          IN /\ heap[result.final_facts] = FactsOf(alone)
             /\ result.steps = alone.steps
             /\ DistinctKeys(rules_in) =>
                   \A p \in Reorderings(rules_in) :
                      run(sort_rules(p), given, max_iterations).steps
                        = result.steps)
  /\ [][Running => (rules' = rules /\ _contradictions' = _contradictions)]_vars

\* a call on the outcome of a truncated call of the same engine has returned
\* steps of its own
C19_Witness ==
  /\ pc = "done" /\ rerun /\ prev_changed
  /\ result.steps # <<>>
  /\ Len(rules_in) >= 2 /\ DistinctKeys(rules_in)

\* C20: in every interleaving of two calls on one engine, each call returns
\* the final facts, the steps and the contradictions that its own initial
\* facts and max_iterations give on the rules and the registry of the engine;
\* a step of one call leaves the arguments, the locals and the result of the
\* other call as they are, and no step of a call changes the engine
C20_NoInterference ==
  /\ [](pc = "done" =>
          LET alone == run(rules, given, max_iterations)
          IN /\ heap[result.final_facts] = FactsOf(alone)
             /\ result.steps = alone.steps
             /\ Range(result.contradictions)
                  = Reported(_contradictions, FactsOf(alone)))
  /\ [](call2.pc = "done" =>
          LET alone == run(rules, call2.given, call2.max_iterations)
          IN /\ call2.heap[call2.result.final_facts] = FactsOf(alone)
             /\ call2.result.steps = alone.steps
             /\ Range(call2.result.contradictions)
                  = Reported(_contradictions, FactsOf(alone)))
  /\ [][call2' # call2 => UNCHANGED <<run_vars, result, pc>>]_vars
  /\ [][(Running \/ call2.pc \in {"while", "for", "scan"})
          => UNCHANGED <<rules, _contradictions>>]_vars

\* the first call has returned steps while the second call, with other
\* initial facts, is in its loop and has made a step
C20_Witness ==
  /\ pc = "done" /\ result.steps # <<>>
  /\ call2.pc = "for" /\ call2.steps # <<>>
  /\ call2.given # given

\* a run of the engine of the tests from the initial facts init has returned
ScenarioDone(init) ==
  /\ pc = "done"
  /\ rules = build_default_wnt_rules
  /\ _contradictions = AddAll({}, DEFAULT_CONTRADICTIONS)
  /\ given = init

\* C21: from the Wnt activation input, with max_iterations >= 1, the final
\* facts hold the formed signalosome, phosphorylated and active LRP6 and
\* beta-catenin UP, not beta-catenin DOWN, and the contradictions hold the
\* pair (BASELINE, UP)
C21_WntActivation ==
  (ScenarioDone(WntActivation) /\ max_iterations >= 1) =>
     LET final == heap[result.final_facts]
     IN /\ {SIGNALOSOME_STATE_FORMED, LRP6_SER_SITES_P,
             LRP6_SIGNALING_ACTIVE, BETA_CAT_LEVEL_UP} \subseteq final
        /\ BETA_CAT_LEVEL_DOWN \notin final
        /\ <<BETA_CAT_LEVEL_BASELINE, BETA_CAT_LEVEL_UP>>
             \in Range(result.contradictions)

\* the run from the Wnt activation input with the default cap has returned
C21_Witness ==
  /\ ScenarioDone(WntActivation)
  /\ max_iterations = DefaultMaxIterations
  /\ Len(result.steps) >= 4

\* C22: from the Wnt-off baseline input, with the default max_iterations
\* (and with every max_iterations >= 2), the final facts hold high
\* destruction-complex activity and beta-catenin DOWN, hold neither the
\* signalosome nor phosphorylated or active LRP6, and the contradiction list
\* is empty
C22_WntOffBaseline ==
  (ScenarioDone(WntOffBaseline) /\ max_iterations >= 2) =>
     LET final == heap[result.final_facts]
     IN /\ {DESTRUCTION_COMPLEX_ACTIVITY_HIGH, BETA_CAT_LEVEL_DOWN}
             \subseteq final
        /\ final \cap {SIGNALOSOME_STATE_FORMED, LRP6_SER_SITES_P,
                        LRP6_SIGNALING_ACTIVE} = {}
        /\ result.contradictions = <<>>

\* the run from the Wnt-off baseline input with the default cap has returned
C22_Witness ==
  /\ ScenarioDone(WntOffBaseline)
  /\ max_iterations = DefaultMaxIterations
  /\ result.steps # <<>>

\* C23: from the input with Wnt and asserted high destruction-complex
\* activity, with max_iterations >= 1, the final facts hold the asserted HIGH
\* and the derived LOW activity, and the contradiction list holds the pair
\* (HIGH, LOW) at exactly one position
C23_ConflictingActivity ==
  (ScenarioDone(WntConflict) /\ max_iterations >= 1) =>
     LET final == heap[result.final_facts]
         pair == <<DESTRUCTION_COMPLEX_ACTIVITY_HIGH,
                   DESTRUCTION_COMPLEX_ACTIVITY_LOW>>
     IN /\ DESTRUCTION_COMPLEX_ACTIVITY_HIGH \in final
        /\ DESTRUCTION_COMPLEX_ACTIVITY_LOW \in final \ given
        /\ Cardinality({i \in 1..Len(result.contradictions) :
                           result.contradictions[i] = pair}) = 1
        /\ \A i \in 1..Len(result.contradictions) :
              result.contradictions[i]
                # <<DESTRUCTION_COMPLEX_ACTIVITY_LOW,
                    DESTRUCTION_COMPLEX_ACTIVITY_HIGH>>

\* the run from the input with Wnt and asserted high destruction-complex
\* activity has returned with the default cap, with a step that added LOW
C23_Witness ==
  /\ ScenarioDone(WntConflict)
  /\ max_iterations = DefaultMaxIterations
  /\ \E i \in 1..Len(result.steps) :
       DESTRUCTION_COMPLEX_ACTIVITY_LOW \in result.steps[i].new_facts

\* the number of positions of the list l that hold x
Count(l, x) == Cardinality({i \in 1..Len(l) : l[i] = x})

\* the list l is in library order: along it the priority falls, or stays
\* while the name does not fall
InLibraryOrder(l) ==
  \A i \in 1..(Len(l) - 1) :
     \/ l[i].priority > l[i + 1].priority
     \/ (l[i].priority = l[i + 1].priority /\ l[i].name <= l[i + 1].name)

\* C24: the rule list of the engine holds the rules it was given, each as
\* often as given, in library order; sorting it again gives the same list;
\* no step after the construction changes it
C24_LibraryOrder ==
  /\ [](pc # "new" =>
          /\ rules = sort_rules(rules_in)
          /\ Len(rules) = Len(rules_in)
          /\ \A x \in Range(rules_in) \cup Range(rules) :
                Count(rules, x) = Count(rules_in, x)
          /\ InLibraryOrder(rules)
          /\ sort_rules(rules) = rules)
  /\ [][pc # "new" => rules' = rules]_vars

\* a run of several passes has returned on an engine whose rules have
\* different priorities and were given out of library order
C24_Witness ==
  /\ pc = "done" /\ iteration >= 2
  /\ rules # rules_in
  /\ \E i, j \in 1..Len(rules) : rules[i].priority # rules[j].priority

\* C25: to_list() and iteration of the caller's FactSet give the facts
\* handed to add and update so far, each once, in ascending order; has(f)
\* holds for these facts and no others; a call that hands over only facts
\* that are present leaves the FactSet as it is
C25_FactSet ==
  /\ [](LET l == to_list(heap[CallerRef])
        IN /\ set(l) = set(inserted)
           /\ \A i, j \in 1..Len(l) : i < j => l[i] < l[j]
           /\ __iter__(heap[CallerRef]) = l
           /\ \A f \in Facts : has(heap, CallerRef, f) <=> f \in set(inserted))
  /\ [][set(inserted') = set(inserted) => heap' = heap]_vars

\* the FactSet has taken four facts, one of them twice, not in ascending order
C25_Witness ==
  /\ Len(inserted) >= 4
  /\ Cardinality(set(inserted)) = Len(inserted) - 1
  /\ \E i, j \in 1..Len(inserted) : i < j /\ inserted[i] > inserted[j]

\* a rule list the specification calls a configuration error: a rule
\* without conditions, or two rules of one name
Misconfigured(l) ==
  \/ \E i \in 1..Len(l) : l[i].conditions = {}
  \/ ~DistinctNames(l)

\* C26 as stated: no run executes on an engine whose rule list has a rule
\* without conditions or two rules of one name
C26_Original == [](InRun => ~Misconfigured(rules))

\* C26: the constructor keeps every rule it is given, a rule without
\* conditions and rules of one name included, and runs execute with them:
\* after a run of at least one pass the conclusions of every rule without
\* conditions are in the final facts, and different rules of one priority and
\* name stand in the engine in the order in which they were given
C26_NoValidation ==
  /\ [](pc # "new" =>
          /\ Len(rules) = Len(rules_in)
          /\ Range(rules) = Range(rules_in)
          /\ \A i, j \in 1..Len(rules_in) :
                (i < j /\ SortKey(rules_in[i]) = SortKey(rules_in[j])
                       /\ rules_in[i] # rules_in[j])
                  => \E a, b \in 1..Len(rules) :
                        a < b /\ rules[a] = rules_in[i] /\ rules[b] = rules_in[j])
  /\ []((pc = "done" /\ max_iterations >= 1) =>
          \A i \in 1..Len(rules) :
             rules[i].conditions = {}
               => rules[i].conclusions \subseteq heap[result.final_facts])

\* a run from no facts has returned a step on an engine built from two rules
\* of one name, one of them without conditions
C26_Witness ==
  /\ pc = "done" /\ given = {}
  /\ ~DistinctNames(rules)
  /\ \E i \in 1..Len(rules) : rules[i].conditions = {}
  /\ result.steps # <<>>

\* C27 as stated: every entry of the contradiction registry is a set of
\* exactly two facts, after the constructor and after every
\* add_contradiction_pair, and no run raises an error
C27_Original ==
  /\ \A pair \in _contradictions : Cardinality(pair) = 2
  /\ pc # "raised"

\* the facts the steps of the list st have added
AddedBy(st) == UNION {st[i].new_facts : i \in 1..Len(st)}

\* C28: all along a run the new_facts of two steps have no fact in common,
\* no step has a fact of the initial facts, and the working facts are the
\* initial facts with the new_facts of all steps; the returned final_facts
\* and steps satisfy the same, also when the run was truncated
C28_TraceAccounts ==
  /\ [](InRun =>
          /\ \A i, j \in 1..Len(steps) :
                i # j => steps[i].new_facts \cap steps[j].new_facts = {}
          /\ AddedBy(steps) \cap given = {}
          /\ heap[facts] = given \cup AddedBy(steps))
  /\ [](pc = "done" =>
          /\ \A i, j \in 1..Len(result.steps) :
                i # j => result.steps[i].new_facts
                           \cap result.steps[j].new_facts = {}
          /\ AddedBy(result.steps) \cap given = {}
          /\ heap[result.final_facts] = given \cup AddedBy(result.steps))

\* a truncated run from some facts has returned two steps, one of a rule
\* that had a conclusion among the facts already
C28_Witness ==
  /\ pc = "done" /\ Truncated
  /\ given # {}
  /\ Len(result.steps) >= 2
  /\ \E i \in 1..Len(result.steps) : \E k \in 1..Len(rules) :
       /\ rules[k].name = result.steps[i].rule_name
       /\ result.steps[i].new_facts # {}
       /\ rules[k].conclusions \ result.steps[i].new_facts # {}
       /\ DistinctNames(rules)

\* the passes in which the steps of the list st were made
ProductivePasses(st) == {st[i].iteration_index : i \in 1..Len(st)}

\* C29: a turn of the for loop appends a step only for a rule some of whose
\* conclusions are missing, and all its conclusions are in the working facts
\* afterwards; the working facts of a run never lose a fact. Hence the steps
\* that carry a name are at most as many as the rules of that name, the
\* steps at most as many as the rules, the passes with a step at most as
\* many as the rules, and an uncapped run ends after at most one pass more
C29_OneStepPerRule ==
  /\ [][(pc = "for" /\ steps' # steps) =>
          /\ rule_i \in 1..Len(rules)
          /\ ~(rules[rule_i].conclusions \subseteq heap[facts])
          /\ rules[rule_i].conclusions \subseteq heap'[facts']
          /\ Len(steps') = Len(steps) + 1
          /\ steps'[Len(steps')].rule_name = rules[rule_i].name]_vars
  /\ [][Running => (facts' = facts /\ heap[facts] \subseteq heap'[facts'])]_vars
  /\ [](InRun =>
          /\ \A k \in 1..Len(rules) :
                Cardinality(StepsOf(steps, rules[k].name))
                  <= Cardinality({m \in 1..Len(rules) :
                                     rules[m].name = rules[k].name})
          /\ \A i \in 1..Len(steps) :
                \E k \in 1..Len(rules) : rules[k].name = steps[i].rule_name
          /\ Len(steps) <= Len(rules)
          /\ Cardinality(ProductivePasses(steps)) <= Len(rules)
          /\ (max_iterations = DefaultMaxIterations
                => iteration <= Len(rules) + 1))

\* an uncapped run has returned with a step of every rule of its library of
\* two or more rules, each step made in a pass of its own
C29_Witness ==
  /\ pc = "done" /\ max_iterations = DefaultMaxIterations
  /\ Len(rules) >= 2
  /\ Len(result.steps) = Len(rules)
  /\ Cardinality(ProductivePasses(result.steps)) = Len(rules)
  /\ iteration = Len(rules) + 1

\* C30: a run of the default library with a cap of three passes or more
\* leaves its loop with "changed" false after at most three passes, none of
\* its steps was made in a pass after the second, and no rule can add a
\* fact to the facts it ends with
C30_LibraryDepth ==
  (pc \in {"scan", "done"} /\ rules = build_default_wnt_rules
                           /\ max_iterations >= 3) =>
     /\ ~changed
     /\ iteration <= 3
     /\ \A i \in 1..Len(steps) : steps[i].iteration_index <= 2
     /\ \A k \in 1..Len(rules) :
           is_applicable(rules[k], heap[facts])
             => rules[k].conclusions \subseteq heap[facts]

\* the run from the Wnt-off baseline input has returned: the baseline rule
\* made DESTRUCTION_COMPLEX_ACTIVITY_HIGH in pass 1, BETA_CAT_LEVEL_DOWN
\* came in pass 2 and the run made three passes
C30_Witness ==
  /\ ScenarioDone(WntOffBaseline)
  /\ max_iterations >= 3
  /\ iteration = 3
  /\ \E i, j \in 1..Len(result.steps) :
       /\ result.steps[i].rule_name
            = baseline_destruction_complex_high_when_no_wnt
       /\ result.steps[i].iteration_index = 1
       /\ result.steps[j].rule_name
            = destruction_complex_high_drives_beta_cat_down
       /\ result.steps[j].new_facts = {BETA_CAT_LEVEL_DOWN}
       /\ result.steps[j].iteration_index = 2

TypeOK ==
  /\ pc \in {"new", "idle", "while", "for", "scan", "done", "touched",
            "raised"}
  /\ initial_facts \in Refs /\ facts \in Refs
  /\ iteration \in 0..(MaxIter + 1)
  /\ changed \in BOOLEAN
====
